---- MODULE Spec2Model ----
(***************************************************************************)
(* The resumable batch runner of method1-VLMreasoning:                     *)
(*   run_full_evaluation.py  run_evaluation   the batch loop               *)
(*   run_single_image.py     main             one item: predict and save   *)
(*   method1_inference.py    process_single   image + question -> record   *)
(* The predictions file (results/<model>_predictions.json) is the          *)
(* ResultCollection.  run_evaluation starts run_single_image.py as a       *)
(* subprocess per item and looks only at its return code.                  *)
(***************************************************************************)
EXTENDS Integers, Sequences, FiniteSets, TLC

\* ------------------------------------------------------------- bounds
NumItems == 3          \* dataset length
NumTexts == 2          \* distinct non-empty VLM responses

Items == 1..NumItems
Texts == 1..NumTexts

\* The processes that run run_single_image.py: the batch runner's subprocess
\* and a user starting the script by hand.
Procs == {"batch", "user"}

\* Python's None for a prediction / a result / existing_idx.
None == 0

\* A dataset item is its 'question_id' and the stem of its 'image_path'.  The ids of a
\* dataset are unique; an item's image is its own (stem = question_id) or the
\* image of the first item (several questions about one image).
Datasets ==
    { d \in [Items -> [question_id : Items, stem : Items]] :
        \A k \in Items : d[k].question_id = k /\ d[k].stem \in {k, 1} }

VARIABLES
    dataset,          \* the dataset JSON, read-only
    file,             \* the predictions file: [state, preds]
    pc,               \* run_evaluation: idle | loop | wait | halted | done
    i,                \* run_evaluation: loop position (1-based)
    processed_ids,    \* run_evaluation: ids loaded at startup
    spc,              \* per process, run_single_image: none|process|merge|write|exit
    image_id,         \* per process, --image_id
    result,           \* per process, result of process_single
    all_predictions,  \* per process, the list about to be written
    existing_idx,     \* per process, index found by the update-or-append scan
    returncode,       \* per process, exit status of the script
    calls,            \* history: subprocess.run calls per item in this run
    failed,           \* history: items the producer failed on in this run
    second,           \* history: this run started right after a run that ended normally
    storage_failed,   \* history: the item whose predictions write raised in this run
    dirty,            \* history, per process: the file was written since it read it
    launches,         \* history: starts of a second instance beside the batch
    text,             \* AnswerParser.parse_answer: the argument
    parsed,           \* AnswerParser.parse_answer: what the call did
    predictions,      \* Method1Evaluator.evaluate: the loaded predictions
    epc,              \* Method1Evaluator.evaluate: idle | loop | done | raised
    epos,             \* Method1Evaluator.evaluate: records consumed
    value_correct,    \* Method1Evaluator.evaluate: counter
    unit_correct,     \* Method1Evaluator.evaluate: counter
    both_correct,     \* Method1Evaluator.evaluate: counter
    detailed_results, \* Method1Evaluator.evaluate: the verdicts
    metrics,          \* Method1Evaluator.evaluate: the summary
    ditems,           \* evaluate_dataset: the dataset it loaded
    dpc,              \* evaluate_dataset / run_method1 main: idle | loop | saved | raised
    results           \* evaluate_dataset: the result list

parseVars == <<text, parsed>>
evalVars == <<predictions, epc, epos, value_correct, unit_correct, both_correct,
              detailed_results, metrics>>
dsVars == <<ditems, dpc, results>>
libVars == <<parseVars, evalVars, dsVars>>

vars == <<dataset, file, pc, i, processed_ids, spc, image_id, result,
          all_predictions, existing_idx, returncode, calls, failed,
          second, storage_failed, dirty, launches, libVars>>

runnerVars == <<pc, i, processed_ids>>
subVars == <<spc, image_id, result, all_predictions, existing_idx, returncode>>
histVars == <<calls, failed, second, storage_failed>>

\* ------------------------------------------------------------- helpers
NoFile == [state |-> "absent", preds |-> <<>>]
CorruptFile == [state |-> "corrupt", preds |-> <<>>]
OkFile(ps) == [state |-> "ok", preds |-> ps]

\* process_single returned None (its except branch).
NoResult == [question_id |-> None, prediction |-> None, item |-> None]

KeySet(ps) == { ps[p].question_id : p \in DOMAIN ps }

\* {p['question_id'] for p in existing_data}, or the empty set when the file
\* is absent or json.load raises (the bare except, "Starting fresh").
LoadProcessedIds(f) == IF f.state = "ok" THEN KeySet(f.preds) ELSE {}

\* find_image_in_dataset by --image_id: the first item with that question_id.
FindImage(d, id) ==
    LET hits == { k \in DOMAIN d : d[k].question_id = id }
    IN  IF hits = {} THEN None
        ELSE CHOOSE k \in hits : \A m \in hits : k <= m

\* What the VLM query and the parse can do for one item.
Outcomes ==
    { [kind |-> "raise", text |-> None], [kind |-> "none", text |-> None] }
    \cup { [kind |-> "text", text |-> t] : t \in Texts }

\* Method1SimpleVLM.process_single followed by main's 'ground_truth' merge.
\* The record's key is Path(image_path).stem; 'item' stands for the fields
\* copied from the dataset item (image_type, ground_truth, question).
ProcessSingle(d, k, o) ==
    IF o.kind = "raise" THEN NoResult
    ELSE [question_id |-> d[k].stem,
          prediction  |-> IF o.kind = "none" THEN None ELSE o.text,
          item        |-> k]

\* main: "if not result or 'question_id' not in result".
ResultInvalid(r) == r = NoResult

\* The scan for existing_idx: first index with the result's question_id.
ExistingIdx(ps, r) ==
    LET hits == { p \in DOMAIN ps : ps[p].question_id = r.question_id }
    IN  IF hits = {} THEN None
        ELSE CHOOSE p \in hits : \A q \in hits : p <= q

OnlyTheNew(ps, r) == <<r>>

AppendAlways(ps, r) == Append(ps, r)

\* Drop the old record and put the new one at the end.
MoveToEnd(ps, r) ==
    LET keep == { p \in DOMAIN ps : ps[p].question_id # r.question_id }
        F[n \in 0..Len(ps)] ==
            IF n = 0 THEN <<>>
            ELSE IF n \in keep THEN Append(F[n - 1], ps[n]) ELSE F[n - 1]
    IN  Append(F[Len(ps)], r)

\* Update or append to the main predictions list.
UpdateOrAppend(ps, r) ==
    IF ExistingIdx(ps, r) # None
    THEN [ps EXCEPT ![ExistingIdx(ps, r)] = r]
    ELSE Append(ps, r)

SkipNever(id, ids) == FALSE

\* run_evaluation: "if image_id in processed_ids: continue".
AlreadyDone(id, ids) == id \in ids

ReturnCodeIgnored(rc) == TRUE

\* run_evaluation: "if result.returncode != 0" is the failure branch.
Succeeded(rc) == rc = 0

\* ------------------------------------------------------------- Init
\* parse_answer has no argument yet / has not been called.
NoText == [present |-> FALSE, chars |-> <<>>]
NotParsed == [kind |-> "none", value |-> <<>>, unit |-> <<>>, raw_answer |-> <<>>]

\* No metrics computed.
NoMetrics == [total_samples |-> 0,
              value_accuracy |-> <<0, 1>>, unit_accuracy |-> <<0, 1>>,
              overall_accuracy |-> <<0, 1>>,
              value_correct_count |-> 0, unit_correct_count |-> 0,
              both_correct_count |-> 0]

\* The components that are not running.
ParseIdle == text = NoText /\ parsed = NotParsed

EvalIdle ==
    /\ predictions = <<>>
    /\ epc = "idle"
    /\ epos = 0
    /\ value_correct = 0
    /\ unit_correct = 0
    /\ both_correct = 0
    /\ detailed_results = <<>>
    /\ metrics = NoMetrics

DsIdle == ditems = <<>> /\ dpc = "idle" /\ results = <<>>

\* No runner yet; the predictions file is absent or holds an empty list.
RunnerInit ==
    /\ dirty = [p \in Procs |-> FALSE]
    /\ launches = 0
    /\ dataset \in Datasets
    /\ file \in {NoFile, OkFile(<<>>)}
    /\ pc = "idle"
    /\ i = 1
    /\ processed_ids = {}
    /\ spc = [p \in Procs |-> "none"]
    /\ image_id = [p \in Procs |-> None]
    /\ result = [p \in Procs |-> NoResult]
    /\ all_predictions = [p \in Procs |-> <<>>]
    /\ existing_idx = [p \in Procs |-> None]
    /\ returncode = [p \in Procs |-> 0]
    /\ calls = [k \in Items |-> 0]
    /\ failed = {}
    /\ second = FALSE
    /\ storage_failed = None

Init ==
    /\ ParseIdle
    /\ EvalIdle
    /\ DsIdle
    /\ RunnerInit

\* No runner is started: the dataset names every image after its item, and
\* there is no predictions file.
RunnerIdle ==
    /\ RunnerInit
    /\ file = NoFile
    /\ \A k \in Items : dataset[k].stem = dataset[k].question_id

\* A fresh run_single_image.py process for --image_id id.
Launch(p, id) ==
    /\ spc' = [spc EXCEPT ![p] = "process"]
    /\ image_id' = [image_id EXCEPT ![p] = id]
    /\ result' = [result EXCEPT ![p] = NoResult]
    /\ all_predictions' = [all_predictions EXCEPT ![p] = <<>>]
    /\ existing_idx' = [existing_idx EXCEPT ![p] = None]
    /\ returncode' = [returncode EXCEPT ![p] = 0]

\* The process is gone, and its locals with it.
Reap(p) ==
    /\ spc' = [spc EXCEPT ![p] = "none"]
    /\ image_id' = [image_id EXCEPT ![p] = None]
    /\ result' = [result EXCEPT ![p] = NoResult]
    /\ all_predictions' = [all_predictions EXCEPT ![p] = <<>>]
    /\ existing_idx' = [existing_idx EXCEPT ![p] = None]
    /\ returncode' = [returncode EXCEPT ![p] = 0]

\* ------------------------------------------------------------- run_evaluation
\* Startup: load the existing predictions to know what is already done.
StartRun ==
    /\ pc \in {"idle", "halted", "done"}
    /\ \A p \in Procs : spc[p] = "none"
    /\ processed_ids' = LoadProcessedIds(file)
    /\ pc' = "loop"
    /\ i' = 1
    /\ calls' = [k \in Items |-> 0]
    /\ failed' = {}
    /\ second' = (pc = "done")
    /\ storage_failed' = None
    /\ UNCHANGED <<libVars, launches, dirty, dataset, file>>
    /\ UNCHANGED subVars

\* Loop head, item already done: continue.
Skip ==
    /\ pc = "loop"
    /\ i <= Len(dataset)
    /\ AlreadyDone(dataset[i].question_id, processed_ids)
    /\ i' = i + 1
    /\ UNCHANGED <<libVars, launches, dirty, dataset, file, pc, processed_ids>>
    /\ UNCHANGED subVars
    /\ UNCHANGED histVars

\* Loop head, item not done: subprocess.run(run_single_image.py --image_id ...).
Invoke ==
    /\ pc = "loop"
    /\ i <= Len(dataset)
    /\ ~AlreadyDone(dataset[i].question_id, processed_ids)
    /\ Launch("batch", dataset[i].question_id)
    /\ pc' = "wait"
    /\ calls' = [calls EXCEPT ![i] = IF @ < 2 THEN @ + 1 ELSE @]
    /\ UNCHANGED <<libVars, launches, dirty, dataset, file, i, processed_ids, failed, second, storage_failed>>

\* subprocess.run returned with a non-zero code: sys.exit(1).
CollectFailure ==
    /\ pc = "wait"
    /\ spc["batch"] = "exit"
    /\ ~Succeeded(returncode["batch"])
    /\ pc' = "halted"
    /\ Reap("batch")
    /\ UNCHANGED <<libVars, launches, dirty, dataset, file, i, processed_ids>>
    /\ UNCHANGED histVars

\* subprocess.run returned 0: display what is in the file (no effect), sleep,
\* next item.
CollectSuccess ==
    /\ pc = "wait"
    /\ spc["batch"] = "exit"
    /\ Succeeded(returncode["batch"])
    /\ pc' = "loop"
    /\ i' = i + 1
    /\ Reap("batch")
    /\ UNCHANGED <<libVars, launches, dirty, dataset, file, processed_ids>>
    /\ UNCHANGED histVars

\* The loop is exhausted: final count, return.
Finish ==
    /\ pc = "loop"
    /\ i > Len(dataset)
    /\ pc' = "done"
    /\ UNCHANGED <<libVars, launches, dirty, dataset, file, i, processed_ids>>
    /\ UNCHANGED histVars
    /\ UNCHANGED subVars

\* No runner process: its locals, and what is remembered of the run, are gone.
Forget ==
    /\ pc' = "idle"
    /\ i' = 1
    /\ processed_ids' = {}
    /\ calls' = [k \in Items |-> 0]
    /\ failed' = {}
    /\ second' = FALSE
    /\ storage_failed' = None

\* The runner and its subprocess are terminated from outside.  A write that
\* was under way leaves the file as it was or truncated.
Kill ==
    /\ pc \in {"loop", "wait"}
    /\ Forget
    /\ Reap("batch")
    /\ IF spc["batch"] = "write"
       THEN file' \in {file, CorruptFile}
       ELSE file' = file
    /\ UNCHANGED <<libVars, launches, dirty, dataset>>

\* ------------------------------------------------------------- run_single_image
\* A user runs run_single_image.py --image_id k by hand while no batch runs.
RunSingle(k) ==
    /\ pc \notin {"loop", "wait"}
    /\ \A p \in Procs : spc[p] = "none"
    /\ Launch("user", dataset[k].question_id)
    /\ Forget
    /\ UNCHANGED <<libVars, launches, dirty, dataset, file>>

SingleDone ==
    /\ spc["user"] = "exit"
    /\ Reap("user")
    /\ UNCHANGED <<libVars, launches, dirty, dataset, file>>
    /\ UNCHANGED runnerVars
    /\ UNCHANGED histVars

Failed(p, k) == IF p = "batch" THEN failed \cup {k} ELSE failed

\* An uncaught exception before process_single (dataset unreadable, a missing
\* 'image_path' or 'question' key, client construction): traceback, exit 1.
SubCrash(p) ==
    /\ spc[p] = "process"
    /\ spc' = [spc EXCEPT ![p] = "exit"]
    /\ returncode' = [returncode EXCEPT ![p] = 1]
    /\ failed' = Failed(p, FindImage(dataset, image_id[p]))
    /\ UNCHANGED <<libVars, launches, dirty, dataset, file, image_id, result, all_predictions, existing_idx,
                   calls, second, storage_failed>>
    /\ UNCHANGED runnerVars

\* find_image_in_dataset, process_single, the validity check.  An invalid
\* result prints the error banner and returns: the exit status stays 0.
SubProcessSingle(p, o) ==
    /\ spc[p] = "process"
    /\ LET k == FindImage(dataset, image_id[p])
           r == ProcessSingle(dataset, k, o)
       IN  /\ result' = [result EXCEPT ![p] = r]
           /\ spc' = [spc EXCEPT ![p] = IF ResultInvalid(r) THEN "exit" ELSE "merge"]
           /\ failed' = IF o.kind = "text" THEN failed ELSE Failed(p, k)
    /\ UNCHANGED <<libVars, launches, dirty, dataset, file, image_id, all_predictions, existing_idx,
                   returncode, calls, second, storage_failed>>
    /\ UNCHANGED runnerVars

\* Read the predictions file and update or append in memory.
SubMerge(p) ==
    /\ spc[p] = "merge"
    /\ file.state # "corrupt"
    /\ existing_idx' = [existing_idx EXCEPT ![p] =
           IF file.state = "ok" THEN ExistingIdx(file.preds, result[p]) ELSE None]
    /\ all_predictions' = [all_predictions EXCEPT ![p] =
           IF file.state = "ok" THEN UpdateOrAppend(file.preds, result[p])
           ELSE <<result[p]>>]
    /\ spc' = [spc EXCEPT ![p] = "write"]
    /\ dirty' = [dirty EXCEPT ![p] = FALSE]
    /\ UNCHANGED <<libVars, launches, dataset, file, image_id, result, returncode>>
    /\ UNCHANGED runnerVars
    /\ UNCHANGED histVars

\* The single_<model>_<id>.json write raises, or json.load of a truncated
\* predictions file raises: traceback, exit 1, the predictions file untouched.
SubMergeFails(p) ==
    /\ spc[p] = "merge"
    /\ spc' = [spc EXCEPT ![p] = "exit"]
    /\ returncode' = [returncode EXCEPT ![p] = 1]
    /\ UNCHANGED <<libVars, launches, dirty, dataset, file, image_id, result, all_predictions, existing_idx>>
    /\ UNCHANGED runnerVars
    /\ UNCHANGED histVars

\* Process p changes the file: whoever else has read it and not yet written
\* holds a list that is out of date.
MarkDirty(p) ==
    dirty' = [q \in Procs |->
                 IF q # p /\ spc[q] = "write" /\ file' # file THEN TRUE ELSE dirty[q]]

\* json.dump(all_predictions) into the predictions file succeeds.
SubWrite(p) ==
    /\ spc[p] = "write"
    /\ file' = OkFile(all_predictions[p])
    /\ MarkDirty(p)
    /\ spc' = [spc EXCEPT ![p] = "exit"]
    /\ UNCHANGED <<libVars, launches, dataset, image_id, result, all_predictions, existing_idx, returncode>>
    /\ UNCHANGED runnerVars
    /\ UNCHANGED histVars

\* Exit status of a Python script that ends with an uncaught exception.
UncaughtExit == 1

\* The write raises (open fails: file as it was; the dump fails part way:
\* file truncated).  Nothing catches it.
SubWriteFails(p) ==
    /\ spc[p] = "write"
    /\ file' \in {file, CorruptFile}
    /\ MarkDirty(p)
    /\ spc' = [spc EXCEPT ![p] = "exit"]
    /\ returncode' = [returncode EXCEPT ![p] = UncaughtExit]
    /\ storage_failed' = IF p = "batch" THEN FindImage(dataset, image_id[p])
                                          ELSE storage_failed
    /\ UNCHANGED <<libVars, launches, dataset, image_id, result, all_predictions, existing_idx,
                   calls, failed, second>>
    /\ UNCHANGED runnerVars

Next ==
    \/ StartRun
    \/ Skip
    \/ Invoke
    \/ CollectFailure
    \/ CollectSuccess
    \/ Finish
    \/ Kill
    \/ \E k \in Items : RunSingle(k)
    \/ SingleDone
    \/ \E p \in Procs : SubCrash(p)
    \/ \E p \in Procs : \E o \in Outcomes : SubProcessSingle(p, o)
    \/ \E p \in Procs : SubMerge(p)
    \/ \E p \in Procs : SubMergeFails(p)
    \/ \E p \in Procs : SubWrite(p)
    \/ \E p \in Procs : SubWriteFails(p)

Spec == Init /\ [][Next]_vars

TypeOK ==
    /\ dataset \in Datasets
    /\ file.state \in {"absent", "ok", "corrupt"}
    /\ pc \in {"idle", "loop", "wait", "halted", "done"}
    /\ i \in 1..(NumItems + 1)
    /\ processed_ids \subseteq Items
    /\ \A p \in Procs : spc[p] \in {"none", "process", "merge", "write", "exit"}
    /\ failed \subseteq Items
    /\ storage_failed \in Items \cup {None}

\* ------------------------------------------------------------- properties
\* Every image stem is the item's own question_id.
Canonical == \A k \in Items : dataset[k].stem = dataset[k].question_id

\* The batch run has reached item k: subprocess.run was or is being made for it,
\* or the loop went past it.
Reached(k) == k < i \/ (k = i /\ pc \in {"wait", "halted"})

Occurrences(ps, id) == Cardinality({ p \in DOMAIN ps : ps[p].question_id = id })

\* C1: in one run of run_evaluation the subprocess is started zero times for
\* every item whose question_id was in the collection loaded at startup, and
\* exactly once for every other item the run has reached (never for an item it
\* has not reached).
C1_SkipLoadedInvokeOnce ==
    pc \in {"loop", "wait", "halted", "done"} =>
        \A k \in Items :
            calls[k] = IF dataset[k].question_id \notin processed_ids /\ Reached(k)
                       THEN 1 ELSE 0

C1_Witness ==
    /\ pc = "done"
    /\ \E k \in Items : dataset[k].question_id \in processed_ids
    /\ \E k \in Items : calls[k] = 1

\* C2: once the producer has failed on an item (an exception, or no usable
\* text), no later dataset item is attempted in that run.
C2_HaltOnProducerFailure ==
    \A k \in failed : \A j \in Items : j > k => calls[j] = 0

\* C3: when a run is over, an item the producer failed on has no record in the
\* predictions file, so a restart attempts it again.
C3_NoRecordForFailedItem ==
    (Canonical /\ pc \in {"halted", "done"}) =>
        \A k \in failed : dataset[k].question_id \notin LoadProcessedIds(file)

\* C4: when a run ends without halting, every dataset item has exactly one
\* record in the predictions file.
C4_OneRecordPerItemAtEnd ==
    (Canonical /\ pc = "done") =>
        \A k \in Items : Occurrences(file.preds, dataset[k].question_id) = 1

\* C5: no two records of the predictions file have the same question_id.
C5_UniqueQuestionIds ==
    \A p, q \in DOMAIN file.preds :
        p # q => file.preds[p].question_id # file.preds[q].question_id

C5_Witness ==
    /\ Len(file.preds) = NumItems
    /\ spc["user"] = "exit"
    /\ existing_idx["user"] # None
    /\ returncode["user"] = 0

\* A step in which process p writes the predictions file successfully.
Saves(p) == spc[p] = "write" /\ spc'[p] = "exit" /\ returncode'[p] = 0

\* C6: a successful save of a record whose question_id already has a record in
\* the file puts the new record in the old one's place: the length, every other
\* record and the order are unchanged.
C6_ReplaceInPlace ==
    [][\A p \in Procs :
          (Saves(p) /\ file.state = "ok"
                    /\ result[p].question_id \in KeySet(file.preds))
          => /\ file'.state = "ok"
             /\ Len(file'.preds) = Len(file.preds)
             /\ \A q \in DOMAIN file.preds :
                   file'.preds[q] =
                       IF file.preds[q].question_id = result[p].question_id
                       THEN result[p] ELSE file.preds[q]]_vars

C6_Witness ==
    \E p \in Procs :
        /\ spc[p] = "exit"
        /\ returncode[p] = 0
        /\ existing_idx[p] # None
        /\ existing_idx[p] < Len(file.preds)
        /\ file.preds[existing_idx[p]] = result[p]
        /\ result[p].prediction # None

\* C7: a run started right after a run that ended normally starts no
\* subprocess at all (so it leaves the file as the first run left it).
C7_SecondRunProcessesNothing ==
    (Canonical /\ second) => \A k \in Items : calls[k] = 0

\* C8: whenever the runner starts processing an item, the file holds a record
\* for every item it processed earlier in the run.
C8_EarlierItemsPersisted ==
    (Canonical /\ pc = "wait" /\ spc["batch"] = "process") =>
        \A k \in Items :
            (k < i /\ calls[k] > 0) =>
                dataset[k].question_id \in LoadProcessedIds(file)

\* C9: no step of a batch run changes the content or the position of a record
\* whose question_id was loaded at startup.
C9_LoadedRecordsUnchanged ==
    [][(pc = "wait" /\ file.state = "ok" /\ file'.state = "ok") =>
          \A q \in DOMAIN file.preds :
              file.preds[q].question_id \in processed_ids =>
                  (q \in DOMAIN file'.preds /\ file'.preds[q] = file.preds[q])]_vars

\* C10: when the write of the predictions file raises for an item of a batch
\* run, the write adds no question_id to the key set a later run loads, and
\* the runner never goes on: it stays on that item until it halts, and no later
\* item is attempted.
C10_StorageFailureHalts ==
    /\ [][\A p \in Procs :
            (spc[p] = "write" /\ spc'[p] = "exit" /\ file' # OkFile(all_predictions[p]))
            => LoadProcessedIds(file') \subseteq LoadProcessedIds(file)]_vars
    /\ [](storage_failed # None =>
            /\ pc \in {"wait", "halted"}
            /\ i = storage_failed
            /\ \A j \in Items : j > i => calls[j] = 0)

C10_Witness ==
    /\ storage_failed # None
    /\ storage_failed > 1
    /\ pc = "halted"
    /\ file.state = "ok"
    /\ dataset[storage_failed].stem \notin LoadProcessedIds(file)

\* =====================================================================
\* answer_parser.py: AnswerParser.parse_answer
\* =====================================================================
\* A text is a sequence of symbols.  A marker word is one symbol; it is made
\* of letters, so it belongs to the unit class like any other letter run.
MaxChunks == 4

Digits == {"4", "6"}
NumChars == Digits \cup {"."}                    \* [0-9.]
Words == {"Answer", "Reading", "about"}
UnitChars == {"A", "m"} \cup Words               \* [a-zA-Z°/%]
Spaces == {" "}                                  \* \s

\* What the response is put together from.
AnswerChunk == <<"Answer", ":", " ", "4", ".", "4", " ", "A">>

OtherAnswer == <<"Answer", ":", " ", "6", " ", "m">>

Chunks ==
    { AnswerChunk, OtherAnswer, <<"Answer", ":">>, <<"Reading", ":">>, <<"about">>,
      <<" ">>, <<"6">>, <<".">>, <<"m">>, <<"-">> }

RECURSIVE Flatten(_)
Flatten(cs) == IF cs = <<>> THEN <<>> ELSE Head(cs) \o Flatten(Tail(cs))

\* The arguments parse_answer is called with: None, or a string.
TextInputs ==
    {NoText} \cup
    { [present |-> TRUE, chars |-> Flatten(cs)] :
        cs \in UNION { [1..n -> Chunks] : n \in 0..MaxChunks } }

\* The position after the longest run of symbols of class C that starts at p.
RECURSIVE EndOfRun(_, _, _)
EndOfRun(t, p, C) ==
    IF p <= Len(t) /\ t[p] \in C THEN EndOfRun(t, p + 1, C) ELSE p

NoMatch == [found |-> FALSE, num |-> <<>>, unit |-> <<>>, end |-> 0]

\* ([0-9.]+)\s*([a-zA-Z°/%]+) matched at position p.  The three classes are
\* disjoint, so the greedy runs are the only way to match.
NumUnitAt(t, p) ==
    LET a == EndOfRun(t, p, NumChars)
        b == EndOfRun(t, a, Spaces)
        c == EndOfRun(t, b, UnitChars)
    IN  IF a > p /\ c > b
        THEN [found |-> TRUE, num |-> SubSeq(t, p, a - 1),
              unit |-> SubSeq(t, b, c - 1), end |-> c]
        ELSE NoMatch

\* word:\s*<pair> (patterns 1 and 2) or word\s+<pair> (pattern 3) at p.
MarkerAt(t, p, word, colon) ==
    IF p > Len(t) \/ t[p] # word THEN NoMatch
    ELSE IF colon
         THEN IF p + 1 <= Len(t) /\ t[p + 1] = ":"
              THEN NumUnitAt(t, EndOfRun(t, p + 2, Spaces))
              ELSE NoMatch
         ELSE LET s == EndOfRun(t, p + 1, Spaces)
              IN  IF s > p + 1 THEN NumUnitAt(t, s) ELSE NoMatch

\* The rightmost position where the pattern matches.
SearchLast(t, word, colon) ==
    LET S == { p \in 1..Len(t) : MarkerAt(t, p, word, colon).found }
    IN  IF S = {} THEN NoMatch
        ELSE MarkerAt(t, CHOOSE p \in S : \A q \in S : q <= p, word, colon)

\* re.search: the leftmost position where the pattern matches.
Search(t, word, colon) ==
    LET S == { p \in 1..Len(t) : MarkerAt(t, p, word, colon).found }
    IN  IF S = {} THEN NoMatch
        ELSE MarkerAt(t, CHOOSE p \in S : \A q \in S : p <= q, word, colon)

\* re.findall(pattern4): the non-overlapping matches from p on, left to right.
RECURSIVE FindAll(_, _)
FindAll(t, p) ==
    LET S == { q \in p..Len(t) : NumUnitAt(t, q).found }
    IN  IF S = {} THEN <<>>
        ELSE LET m == NumUnitAt(t, CHOOSE q \in S : \A r \in S : q <= r)
             IN  <<m>> \o FindAll(t, m.end)

\* float(): a run of [0-9.] is a float literal iff it has a digit and at
\* most one dot.
IsFloat(num) ==
    /\ \E k \in 1..Len(num) : num[k] \in Digits
    /\ Cardinality({ k \in 1..Len(num) : num[k] = "." }) <= 1

DigitVal(c) == IF c = "4" THEN 4 ELSE 6

RECURSIVE ToInt(_)
ToInt(ds) ==
    IF ds = <<>> THEN 0
    ELSE 10 * ToInt(SubSeq(ds, 1, Len(ds) - 1)) + DigitVal(ds[Len(ds)])

\* The value of a float literal, as <<n, d>> for n / 10^d.  No literal here
\* has a zero digit, so equal values have equal pairs.
Float(num) ==
    LET dots == { k \in 1..Len(num) : num[k] = "." }
        d    == IF dots = {} THEN 0 ELSE Len(num) - (CHOOSE k \in dots : TRUE)
    IN  <<ToInt(SelectSeq(num, LAMBDA c : c \in Digits)), d>>

\* The call ended by raising e.
Raised(e) == [kind |-> e, value |-> <<>>, unit |-> <<>>, raw_answer |-> <<>>]

\* {"value": None, "unit": None, "raw_answer": None}
AllAbsent == [kind |-> "ok", value |-> <<>>, unit |-> <<>>, raw_answer |-> <<>>]

\* The return statement of a matching pattern; float() may raise.
Return(m) ==
    IF IsFloat(m.num)
    THEN [kind |-> "ok", value |-> Float(m.num), unit |-> m.unit,
          raw_answer |-> m.num \o <<" ">> \o m.unit]
    ELSE Raised("ValueError")

\* parse_answer(text).  re.search(pattern1, None) raises TypeError.
ParseAnswer(tx) ==
    IF ~tx.present THEN Raised("TypeError")
    ELSE LET t   == tx.chars
             m1  == Search(t, "Answer", TRUE)
             m2  == Search(t, "Reading", TRUE)
             m3  == Search(t, "about", FALSE)
             all == FindAll(t, 1)
         IN  IF m1.found THEN Return(m1)
             ELSE IF m2.found THEN Return(m2)
             ELSE IF m3.found THEN Return(m3)
             ELSE IF all # <<>> THEN Return(all[Len(all)])
             ELSE AllAbsent

ParseInit ==
    /\ RunnerIdle
    /\ EvalIdle
    /\ DsIdle
    /\ text \in TextInputs
    /\ parsed = NotParsed

\* One call of parse_answer.
Parse ==
    /\ parsed = NotParsed
    /\ parsed' = ParseAnswer(text)
    /\ UNCHANGED <<text, evalVars, dsVars, dirty, launches, runnerVars, subVars, histVars, dataset, file>>

ParseNext == Parse

SpecParse == ParseInit /\ [][ParseNext]_vars

\* The call has ended, by returning or by raising.
Called == parsed # NotParsed

\* C11: parse_answer called with absent text returns value, unit and raw
\* answer all absent, and does not raise.
C11_AbsentTextAllAbsent ==
    (Called /\ ~text.present) => parsed = AllAbsent


\* The candidate of each rule, and the candidate of the first rule that has one.
Candidates(t) ==
    LET all == FindAll(t, 1)
    IN  << Search(t, "Answer", TRUE), Search(t, "Reading", TRUE),
           Search(t, "about", FALSE),
           IF all = <<>> THEN NoMatch ELSE all[Len(all)] >>

FirstOf(ms, ok(_)) ==
    LET R == { r \in 1..Len(ms) : ok(ms[r]) }
    IN  IF R = {} THEN NoMatch ELSE ms[CHOOSE r \in R : \A q \in R : r <= q]

\* value, unit and raw answer of a candidate whose number is a float.
Answer(m) ==
    IF m.found
    THEN [kind |-> "ok", value |-> Float(m.num), unit |-> m.unit,
          raw_answer |-> m.num \o <<" ">> \o m.unit]
    ELSE AllAbsent

\* C12: a candidate whose numeric span is not a float (more than one dot,
\* only a dot) counts as no match and extraction falls through to the next
\* rule; parse_answer does not raise.
C12_BadNumberFallsThrough ==
    (Called /\ text.present) =>
        parsed = Answer(FirstOf(Candidates(text.chars),
                                LAMBDA m : m.found /\ IsFloat(m.num)))

\* AnswerChunk stands in t at position p.
AnswerAt(t, p) ==
    /\ p + Len(AnswerChunk) - 1 <= Len(t)
    /\ SubSeq(t, p, p + Len(AnswerChunk) - 1) = AnswerChunk

\* ... as the first "Answer" of t, its unit ending with the "A".
FirstAnswerAt(t, p) ==
    /\ AnswerAt(t, p)
    /\ \A q \in 1..(p - 1) : t[q] # "Answer"
    /\ p + Len(AnswerChunk) <= Len(t) => t[p + Len(AnswerChunk)] \notin UnitChars

Is44A == parsed.kind = "ok" /\ parsed.value = <<44, 1>> /\ parsed.unit = <<"A">>

\* C14 (as written): for every text containing "Answer: 4.4 A" parse_answer
\* returns value 4.4 and unit "A", whatever comes before or after it.
C14_AnswerAnywhere ==
    (Called /\ text.present /\ \E p \in 1..Len(text.chars) : AnswerAt(text.chars, p))
        => Is44A

\* C14 (amended): for every text in which "Answer: 4.4 A" is the first
\* "Answer" marker and the "A" is not directly followed by another unit
\* character, parse_answer returns value 4.4 and unit "A", whatever else
\* comes before or after it.
C14_FirstAnswerWins ==
    (Called /\ text.present /\ \E p \in 1..Len(text.chars) : FirstAnswerAt(text.chars, p))
        => Is44A

\* Text stands before and after the answer, a second "Answer" match included.
C14_Witness ==
    /\ Called
    /\ text.present
    /\ \E p \in 2..Len(text.chars) :
          /\ FirstAnswerAt(text.chars, p)
          /\ \E q \in (p + Len(AnswerChunk))..Len(text.chars) :
                MarkerAt(text.chars, q, "Answer", TRUE).found
    /\ Is44A

\* C15: the rules are tried in the order Answer, Reading, about, last pair;
\* parse_answer returns the result of the first rule that matches anywhere
\* in the text, and all-absent when none matches.
C15_FirstMatchingRuleWins ==
    (Called /\ text.present) =>
        LET m == FirstOf(Candidates(text.chars), LAMBDA c : c.found)
        IN  /\ parsed.kind = "ok"
            /\ parsed.unit = m.unit
            /\ parsed.raw_answer = Answer(m).raw_answer
            /\ IsFloat(m.num) => parsed.value = Float(m.num)

\* The same for the texts whose first matching rule found a float literal.
RuleOrderOnFloats ==
    (Called /\ text.present) =>
        LET m == FirstOf(Candidates(text.chars), LAMBDA c : c.found)
        IN  (~m.found \/ IsFloat(m.num)) => parsed = Answer(m)

\* C16: for every text without marker words that contains number-unit
\* pairs, parse_answer returns the last number-unit pair of the whole text.
C16_LastPairWithoutMarkers ==
    LET t    == text.chars
        all  == FindAll(t, 1)
        last == all[Len(all)]
    IN  (Called /\ text.present /\ all # <<>> /\ \A q \in 1..Len(t) : t[q] \notin Words)
            => /\ parsed.kind = "ok"
               /\ parsed.unit = last.unit
               /\ IsFloat(last.num) => parsed.value = Float(last.num)


\* =====================================================================
\* evaluate_method1.py: Method1Evaluator
\* =====================================================================
MaxRecords == 2

\* A JSON value that may be null: numbers are <<n>>, strings are sequences
\* of characters, an interval is the pair of its ends, each <<>> for null.
Absent == [some |-> FALSE, v |-> <<>>]
Some(x) == [some |-> TRUE, v |-> x]

\* str.lower() and str.strip()
LowerChar(c) == IF c = "A" THEN "a" ELSE IF c = "V" THEN "v" ELSE c

Lower(str) == [k \in 1..Len(str) |-> LowerChar(str[k])]

RECURSIVE Strip(_)
Strip(str) ==
    IF str = <<>> THEN <<>>
    ELSE IF Head(str) = " " THEN Strip(Tail(str))
    ELSE IF str[Len(str)] = " " THEN Strip(SubSeq(str, 1, Len(str) - 1))
    ELSE str

\* The ground_truth of a record: the key is missing, its value is null, or
\* it is a dict with 'interval' and 'unit'.
GroundTruths ==
    { [kind |-> "missing", interval |-> Absent, unit |-> Absent],
      [kind |-> "null",    interval |-> Absent, unit |-> Absent],
      [kind |-> "dict",    interval |-> Absent, unit |-> Some(<<"A">>)],
      [kind |-> "dict",    interval |-> Some(<< <<4>>, <<6>> >>), unit |-> Absent],
      [kind |-> "dict",    interval |-> Some(<< <<>>, <<>> >>),   unit |-> Absent],
      [kind |-> "dict",    interval |-> Some(<< <<4>>, <<6>> >>), unit |-> Some(<<"A">>)] }

PredictedValues == {Absent} \cup { Some(<<n>>) : n \in {3, 4, 6, 7} }

PredictedUnits == {Absent, Some(<<"A">>), Some(<<" ", "a", " ">>), Some(<<"V">>)}

Records ==
    [question_id : {"q"}, predicted_value : PredictedValues,
     predicted_unit : PredictedUnits, ground_truth : GroundTruths]

\* is_value_correct: "True", "False", or the exception the comparison of a
\* number with None raises.  min_val <= predicted <= max_val stops at the
\* first comparison that is false.
is_value_correct(predicted, ground_truth_interval) ==
    IF ~predicted.some \/ ~ground_truth_interval.some THEN "False"
    ELSE LET min_val == ground_truth_interval.v[1]
             max_val == ground_truth_interval.v[2]
         IN  IF min_val = <<>> THEN "TypeError"
             ELSE IF ~(min_val[1] <= predicted.v[1]) THEN "False"
             ELSE IF max_val = <<>> THEN "TypeError"
             ELSE IF predicted.v[1] <= max_val[1] THEN "True" ELSE "False"

is_unit_correct(predicted, ground_truth) ==
    IF ~predicted.some \/ ~ground_truth.some THEN FALSE
    ELSE Strip(Lower(predicted.v)) = Strip(Lower(ground_truth.v))

\* value_correct / total if total > 0 else 0, as <<numerator, denominator>>
Accuracy(count, total) == IF total > 0 THEN <<count, total>> ELSE <<0, 1>>

EvalInit ==
    /\ RunnerIdle
    /\ ParseIdle
    /\ DsIdle
    /\ predictions \in UNION { [1..n -> Records] : n \in 0..MaxRecords }
    /\ epc = "loop"
    /\ epos = 0
    /\ value_correct = 0
    /\ unit_correct = 0
    /\ both_correct = 0
    /\ detailed_results = <<>>
    /\ metrics = NoMetrics

\* One turn of 'for pred in predictions'.
EvalRecord ==
    /\ epc = "loop"
    /\ epos < Len(predictions)
    /\ LET pred        == predictions[epos + 1]
           gt          == pred.ground_truth
           value_ok    == is_value_correct(pred.predicted_value, gt.interval)
           unit_ok     == is_unit_correct(pred.predicted_unit, gt.unit)
       IN  IF gt.kind = "null" \/ value_ok = "TypeError"
           THEN /\ epc' = "raised"
                /\ UNCHANGED <<epos, value_correct, unit_correct, both_correct,
                               detailed_results>>
           ELSE /\ epc' = epc
                /\ epos' = epos + 1
                /\ value_correct' = value_correct + (IF value_ok = "True" THEN 1 ELSE 0)
                /\ unit_correct' = unit_correct + (IF unit_ok THEN 1 ELSE 0)
                /\ both_correct' =
                       both_correct + (IF value_ok = "True" /\ unit_ok THEN 1 ELSE 0)
                /\ detailed_results' = Append(detailed_results,
                       [question_id |-> pred.question_id,
                        value_correct |-> value_ok = "True",
                        unit_correct |-> unit_ok,
                        both_correct |-> (value_ok = "True" /\ unit_ok),
                        predicted_value |-> pred.predicted_value,
                        predicted_unit |-> pred.predicted_unit,
                        ground_truth_interval |-> gt.interval,
                        ground_truth_unit |-> gt.unit])
    /\ UNCHANGED <<predictions, metrics, parseVars, dsVars, dirty, launches, runnerVars,
                   subVars, histVars, dataset, file>>

\* After the loop: the metrics, and the return.
EvalReturn ==
    /\ epc = "loop"
    /\ epos = Len(predictions)
    /\ LET total == Len(predictions)
       IN  metrics' = [total_samples |-> total,
                       value_accuracy |-> Accuracy(value_correct, total),
                       unit_accuracy |-> Accuracy(unit_correct, total),
                       overall_accuracy |-> Accuracy(both_correct, total),
                       value_correct_count |-> value_correct,
                       unit_correct_count |-> unit_correct,
                       both_correct_count |-> both_correct]
    /\ epc' = "done"
    /\ UNCHANGED <<predictions, epos, value_correct, unit_correct, both_correct,
                   detailed_results, parseVars, dsVars, dirty, launches, runnerVars,
                   subVars, histVars, dataset, file>>

EvalNext == EvalRecord \/ EvalReturn

SpecEval == EvalInit /\ [][EvalNext]_vars

\* The ground truth of a record is missing or malformed.
Malformed(gt) ==
    \/ gt.kind # "dict"
    \/ ~gt.interval.some
    \/ ~gt.unit.some
    \/ \E e \in 1..2 : gt.interval.v[e] = <<>>

\* C13: a record whose ground truth is missing or malformed is scored
\* not-correct, and scoring it does not raise.
C13_MalformedGroundTruthNotCorrect ==
    /\ epc = "raised" => ~Malformed(predictions[epos + 1].ground_truth)
    /\ \A k \in 1..Len(detailed_results) :
          Malformed(predictions[k].ground_truth) => ~detailed_results[k].both_correct

\* The same for the records with a missing or malformed ground truth that
\* is not null and has no null interval end.
MalformedScoredNotCorrect ==
    \A k \in 1..Len(detailed_results) :
        Malformed(predictions[k].ground_truth) => ~detailed_results[k].both_correct

\* The reference verdicts of a record.
ValueOk(r) ==
    /\ r.predicted_value.some
    /\ r.ground_truth.interval.some
    /\ r.ground_truth.interval.v[1] # <<>>
    /\ r.ground_truth.interval.v[2] # <<>>
    /\ r.ground_truth.interval.v[1][1] <= r.predicted_value.v[1]
    /\ r.predicted_value.v[1] <= r.ground_truth.interval.v[2][1]

UnitOk(r) ==
    /\ r.predicted_unit.some
    /\ r.ground_truth.unit.some
    /\ Strip(Lower(r.predicted_unit.v)) = Strip(Lower(r.ground_truth.unit.v))

Count(ps, ok(_)) == Cardinality({ k \in 1..Len(ps) : ok(ps[k]) })

\* C17: evaluate over any sequence of records never raises, and returns the
\* reference result: one verdict per record, the counts of the true
\* verdicts, and each accuracy count/total, or 0 for no records.
C17_EvaluateEqualsReference ==
    /\ epc # "raised"
    /\ epc = "done" =>
          LET n == Len(predictions)
          IN  /\ metrics.total_samples = n
              /\ Len(detailed_results) = n
              /\ \A k \in 1..n :
                    /\ detailed_results[k].value_correct = ValueOk(predictions[k])
                    /\ detailed_results[k].unit_correct = UnitOk(predictions[k])
                    /\ detailed_results[k].both_correct =
                           (ValueOk(predictions[k]) /\ UnitOk(predictions[k]))
              /\ metrics.value_correct_count = Count(predictions, ValueOk)
              /\ metrics.unit_correct_count = Count(predictions, UnitOk)
              /\ metrics.both_correct_count =
                     Count(predictions, LAMBDA r : ValueOk(r) /\ UnitOk(r))
              /\ metrics.value_accuracy =
                     (IF n = 0 THEN <<0, 1>> ELSE <<Count(predictions, ValueOk), n>>)
              /\ metrics.unit_accuracy =
                     (IF n = 0 THEN <<0, 1>> ELSE <<Count(predictions, UnitOk), n>>)
              /\ metrics.overall_accuracy =
                     (IF n = 0 THEN <<0, 1>>
                      ELSE <<Count(predictions, LAMBDA r : ValueOk(r) /\ UnitOk(r)), n>>)

\* The same without the claim that nothing is raised.
ReturnedEqualsReference == C17_EvaluateEqualsReference \/ epc = "raised"


\* =====================================================================
\* method1_inference.py: Method1SimpleVLM.evaluate_dataset
\* =====================================================================
MaxDataset == 3

\* What process_single returned: None, or a dict with these keys.
ResultKeys(o) ==
    IF o.kind = "raise" THEN [isdict |-> FALSE, keys |-> {}]
    ELSE IF o.kind = "none"
    THEN [isdict |-> TRUE,
          keys |-> {"question_id", "prediction", "predicted_value",
                    "predicted_unit", "image_type"}]
    ELSE [isdict |-> TRUE,
          keys |-> {"question_id", "question", "prediction", "predicted_value",
                    "predicted_unit", "image_type"}]

\* The keys of result that results.append({...}) reads.
KeysRead == {"prediction", "predicted_value", "predicted_unit", "vlm_response"}

DsInit ==
    /\ RunnerIdle
    /\ ParseIdle
    /\ EvalIdle
    /\ ditems \in UNION { [1..n -> [question_id : Items, stem : Items]] :
                            n \in 0..MaxDataset }
    /\ dpc = "loop"
    /\ results = <<>>

\* One turn of 'for item in tqdm(dataset)': process_single, then the append;
\* result["prediction"] of None raises TypeError, result["vlm_response"] of
\* a dict without that key raises KeyError.  run_method1's main catches both.
DsItem ==
    /\ dpc = "loop"
    /\ Len(results) < Len(ditems)
    /\ \E o \in Outcomes :
          LET item   == ditems[Len(results) + 1]
              rk     == ResultKeys(o)
          IN  IF ~rk.isdict
              THEN dpc' = "TypeError" /\ results' = results
              ELSE IF ~(KeysRead \subseteq rk.keys)
              THEN dpc' = "KeyError" /\ results' = results
              ELSE /\ dpc' = dpc
                   /\ results' = Append(results,
                          [question_id |-> item.question_id,
                           prediction |-> IF o.kind = "none" THEN None ELSE o.text])
    /\ UNCHANGED <<ditems, parseVars, evalVars, dirty, launches, runnerVars, subVars,
                   histVars, dataset, file>>

\* After the loop: json.dump(results) and return results.
DsSave ==
    /\ dpc = "loop"
    /\ Len(results) = Len(ditems)
    /\ dpc' = "saved"
    /\ UNCHANGED <<ditems, results, parseVars, evalVars, dirty, launches, runnerVars,
                   subVars, histVars, dataset, file>>

DsNext == DsItem \/ DsSave

SpecDataset == DsInit /\ [][DsNext]_vars

\* C19: evaluate_dataset on n items processes every item in order and ends
\* by saving and returning exactly n records, one per item, whatever
\* process_single returned for each item.
C19_OneRecordPerDatasetItem ==
    /\ dpc \in {"loop", "saved"}
    /\ dpc = "saved" =>
          /\ Len(results) = Len(ditems)
          /\ \A k \in 1..Len(ditems) : results[k].question_id = ditems[k].question_id


\* =====================================================================
\* Two instances on one predictions file
\* =====================================================================
MaxLaunches == 1

\* While run_evaluation is running, a second instance starts
\* run_single_image.py for item k against the same results directory.
RunSingleConc(k) ==
    /\ pc \in {"loop", "wait"}
    /\ spc["user"] = "none"
    /\ launches < MaxLaunches
    /\ launches' = launches + 1
    /\ Launch("user", dataset[k].question_id)
    /\ UNCHANGED <<libVars, dirty, dataset, file>>
    /\ UNCHANGED runnerVars
    /\ UNCHANGED histVars

ConcNext == Next \/ \E k \in Items : RunSingleConc(k)

SpecConc == Init /\ [][ConcNext]_vars

\* C18: a save is a read of the whole list followed by a full rewrite.  A
\* save whose read is still current when it writes (always so with a single
\* instance) keeps every key of the file; with two instances there is an
\* interleaving in which a record one instance saved is gone after the
\* other's save.
C18_OnlyStaleSavesLoseRecords ==
    [][\A p \in Procs :
          (Saves(p) /\ file.state = "ok" /\ ~dirty[p])
              => KeySet(file.preds) \subseteq KeySet(file'.preds)]_vars

\* Both processes saved and exited 0, and the record of the one is not in
\* the file the other wrote.
C18_Witness ==
    /\ \A p \in Procs : spc[p] = "exit" /\ returncode[p] = 0 /\ ~ResultInvalid(result[p])
    /\ file.state = "ok"
    /\ dirty["batch"]
    /\ result["user"].question_id \notin KeySet(file.preds)
    /\ result["batch"].question_id \in KeySet(file.preds)

\* With a single instance no read is out of date when it is written.
SingleInstanceNeverStale == \A p \in Procs : ~dirty[p]

\* With a single instance every save keeps every key of the file.
SingleInstanceKeepsRecords ==
    [][\A p \in Procs :
          (Saves(p) /\ file.state = "ok")
              => KeySet(file.preds) \subseteq KeySet(file'.preds)]_vars


\* =====================================================================
\* The key of the persisted record
\* =====================================================================
\* Process p processed its item successfully: a prediction, saved, exit 0.
ProcessedOk(p) ==
    /\ spc[p] = "exit"
    /\ returncode[p] = 0
    /\ ~ResultInvalid(result[p])
    /\ result[p].prediction # None

\* C20: the record persisted for a dataset item carries the item's own
\* question_id whatever its image path: once the item is processed
\* successfully, its question_id is in the key set the next run loads, so
\* that run skips it.
C20_RecordCarriesItemId ==
    \A p \in Procs :
        ProcessedOk(p) =>
            /\ result[p].question_id = image_id[p]
            /\ AlreadyDone(image_id[p], LoadProcessedIds(file))

\* The same for the datasets that name every image after its item.
RecordCarriesItemIdWhenCanonical == Canonical => C20_RecordCarriesItemId

====
